---- MODULE Spec2Model ----
(***************************************************************************)
(* A model of the retrieval-augmented chat service of ollama-rag-chat:     *)
(*   rag-api/rag_api.py         the chat() endpoint and its token stream   *)
(*   rag-api/vector_builder.py  build_vector_db, the batch index builder   *)
(*                                                                         *)
(* Text is a sequence of pieces (characters or literal pieces of a format  *)
(* string), so that concatenation, slicing and stripping are computed.     *)
(***************************************************************************)
EXTENDS Integers, Sequences, FiniteSets, TLC

(***************************************************************************)
(* Bounds of the model.                                                    *)
(***************************************************************************)
MaxHist == 7
MaxIndex == 2
MaxTokens == 3
MaxRows == 3
MaxLen == 3
BatchSize == 2

(***************************************************************************)
(* Constants of the program.                                               *)
(***************************************************************************)
HistoryWindow == 6
TopK == 5
PreviewLen == 200

Tasks == {"A", "B"}
NoTask == "none"

VARIABLES
    \* ---- rag_api.py: one entry per request task on the event loop
    pc,                    \* position of the task in chat() / generate()
    request,               \* ChatRequest: message, history, stream
    script,                \* what the generation collaborator will do
    docs,                  \* result of retriever.invoke
    context,               \* local of chat()
    conversation_history,  \* local of chat()
    chain_input,           \* the calls made to chain.stream / chain.invoke
    requested,             \* number of tokens asked of chain.stream
    handle,                \* the chain.stream iterator: none, open, closed
    events,                \* what generate() has yielded to the client
    response,              \* what chat() returned or raised
    clientGone,            \* the client has disconnected
    cancelled,             \* the disconnect was delivered to the stream task
    running,               \* the task that holds the event loop's thread
    \* ---- the persisted collection, shared by both programs
    index,
    \* ---- vector_builder.py: build_vector_db
    bpc,                   \* position in build_vector_db
    rows,                  \* df, the rows of the CSV
    metadata_columns,
    chunk,                 \* <<chunk_size, chunk_overlap>>
    cursor,                \* rows consumed by the row loop
    documents,
    skipped,
    split_docs,
    ids,
    stored,                \* fragments handed to the collection so far
    failed,                \* the fragment on which the embedder raised, or 0
    runs,                  \* completed runs of build_vector_db
    indexAtStart,          \* the collection when the current run began
    indexAfterFirst,       \* the collection when the first run ended
    seen                   \* what retrievals observed while a build was running

chatVars == <<pc, request, script, docs, context, conversation_history,
              chain_input, requested, handle, events, response, clientGone,
              cancelled, running>>
buildVars == <<bpc, rows, metadata_columns, chunk, cursor, documents, skipped,
               split_docs, ids, stored, failed, runs, indexAtStart,
               indexAfterFirst>>
vars == <<chatVars, buildVars, index, seen>>

(***************************************************************************)
(* Helpers on sequences.                                                   *)
(***************************************************************************)
Min(a, b) == IF a < b THEN a ELSE b

\* s[:n]
Take(s, n) == SubSeq(s, 1, Min(n, Len(s)))

\* s[-n:]
LastN(s, n) == SubSeq(s, Len(s) - Min(n, Len(s)) + 1, Len(s))

\* s[n:] for 0 <= n
Drop(s, n) == SubSeq(s, Min(n, Len(s)) + 1, Len(s))

RECURSIVE Flatten(_)
Flatten(ss) == IF ss = <<>> THEN <<>> ELSE Head(ss) \o Flatten(Tail(ss))

SeqsUpTo(S, n) == UNION {[1..k -> S] : k \in 0..n}

Digit(d) == <<"0", "1", "2", "3", "4", "5", "6", "7", "8", "9">>[d + 1]

\* str(i) of a natural number, as its decimal digits
RECURSIVE Str(_)
Str(i) == IF i < 10 THEN <<Digit(i)>> ELSE Str(i \div 10) \o <<Digit(i % 10)>>

\* f"doc_{i}"
FragmentId(i) == <<"doc_">> \o Str(i)

(***************************************************************************)
(* rag_api.py, chat(): steps 2 and 3, the context and the history block.   *)
(***************************************************************************)
\* variant: the marker numbered as by enumerate(docs), from 0
DocHeaderFromZero(i) == <<"\n--- Document ">> \o Str(i - 1) \o <<" ---\n">>

\* f"\n--- Document {i} ---\n"
DocHeader(i) == <<"\n--- Document ">> \o Str(i) \o <<" ---\n">>

\* for i, doc in enumerate(docs, 1): context += ...
RECURSIVE FormatContextLoop(_, _, _)
FormatContextLoop(ds, i, ctx) ==
    IF i > Len(ds) THEN ctx
    ELSE FormatContextLoop(ds, i + 1,
                           ctx \o DocHeader(i) \o ds[i].page_content \o <<"\n">>)

FormatContext(ds) == FormatContextLoop(ds, 1, <<>>)

\* variant: the first turns kept, as by request.history[:6]
RecentHistoryFirst(history) ==
    IF Len(history) > HistoryWindow THEN Take(history, HistoryWindow) ELSE history

\* request.history[-6:] if len(request.history) > 6 else request.history
RecentHistory(history) ==
    IF Len(history) > HistoryWindow THEN LastN(history, HistoryWindow) ELSE history

RoleLabel(role) == IF role = "user" THEN "User" ELSE "Assistant"

\* f"{role_label}: {msg.content}\n"
HistoryLine(msg) == <<RoleLabel(msg.role), ": ", msg.content, "\n">>

FormatHistory(history) ==
    IF history = <<>> THEN <<>>
    ELSE LET recent_history == RecentHistory(history)
         IN  IF recent_history = <<>> THEN <<>>
             ELSE <<"Previous conversation:\n">>
                  \o Flatten([j \in 1..Len(recent_history) |->
                                 HistoryLine(recent_history[j])])
                  \o <<"\n">>

ChainInput(t) == [context |-> context[t],
                  question |-> request[t].message,
                  conversation_history |-> conversation_history[t]]

\* doc.page_content[:200] + "..."
Source(doc) == [content |-> Take(doc.page_content, PreviewLen) \o <<"...">>]

(***************************************************************************)
(* rag_api.py, generate(): the events of the stream.                       *)
(***************************************************************************)
ContentEvent(token) == [token |-> token, type |-> "content"]
DoneEvent == [marker |-> "[DONE]"]
ErrorEvent(msg) == [error |-> msg]

\* variant: the loop ends without the terminal event
OnExhaustedSilent == <<>>

\* after the for loop: yield "data: [DONE]\n\n"
OnExhausted == <<DoneEvent>>

\* variant: [DONE] is yielded after the error event as well
OnExceptionThenDone(msg) == <<ErrorEvent(msg), DoneEvent>>

\* except Exception as e: yield the error event
OnException(msg) == <<ErrorEvent(msg)>>

\* variant: a bare except, which catches BaseException too
CatchesAll(exc) == TRUE

\* "except Exception" catches Exception and its subclasses;
\* asyncio.CancelledError and GeneratorExit derive from BaseException
Catches(exc) == exc = "Exception"

(***************************************************************************)
(* The retriever: similarity search, k = 5, over the collection.  The      *)
(* ranking depends on the embeddings, which are not modelled: any order of *)
(* any min(k, size) entries may come back.                                 *)
(***************************************************************************)
Rankings(ix) ==
    LET m == Min(TopK, Cardinality(DOMAIN ix))
    IN  {r \in [1..m -> DOMAIN ix] : \A i, j \in 1..m : r[i] = r[j] => i = j}

Retrieved(ix, r) ==
    [i \in 1..Len(r) |-> [id |-> r[i],
                          page_content |-> ix[r[i]].text,
                          metadata |-> ix[r[i]].metadata]]

(***************************************************************************)
(* chat(): the actions of one request task.  A synchronous call holds the  *)
(* event loop's thread (running = t) until the task reaches an await or    *)
(* returns.                                                                *)
(***************************************************************************)
Streaming(t) == pc[t] \in {"responding", "pulling", "emitted", "yielded"}

\* chat() is entered and calls retriever.invoke, a synchronous call
StartRetrieve(t) ==
    /\ pc[t] = "start"
    /\ running = NoTask
    /\ pc' = [pc EXCEPT ![t] = "retrieving"]
    /\ running' = t
    /\ UNCHANGED <<request, script, docs, context, conversation_history,
                   chain_input, requested, handle, events, response,
                   clientGone, cancelled, index, seen, buildVars>>

\* retriever.invoke raises: the outer except turns it into HTTP 500
RetrieveError(t) ==
    /\ pc[t] = "retrieving"
    /\ pc' = [pc EXCEPT ![t] = "raised"]
    /\ response' = [response EXCEPT ![t] = [status |-> 500]]
    /\ running' = NoTask
    /\ UNCHANGED <<request, script, docs, context, conversation_history,
                   chain_input, requested, handle, events, clientGone,
                   cancelled, index, seen, buildVars>>

\* retriever.invoke returns; steps 2 and 3 run; a streaming request returns
\* its StreamingResponse, a non-streaming one calls chain.invoke
RetrieveDone(t) ==
    /\ pc[t] = "retrieving"
    /\ \E r \in Rankings(index) :
          LET ds == Retrieved(index, r)
          IN  /\ docs' = [docs EXCEPT ![t] = ds]
              /\ context' = [context EXCEPT ![t] = FormatContext(ds)]
              /\ seen' = IF bpc \in {"rows", "split", "store"}
                         THEN seen \cup {ds} ELSE seen
    /\ conversation_history' =
          [conversation_history EXCEPT ![t] = FormatHistory(request[t].history)]
    /\ IF request[t].stream
       THEN /\ pc' = [pc EXCEPT ![t] = "responding"]
            /\ running' = NoTask
            /\ UNCHANGED chain_input
       ELSE /\ pc' = [pc EXCEPT ![t] = "invoking"]
            /\ running' = t
            /\ chain_input' = [chain_input EXCEPT ![t] =
                                  <<[context |-> context'[t],
                                     question |-> request[t].message,
                                     conversation_history |->
                                         conversation_history'[t]]>>]
    /\ UNCHANGED <<request, script, requested, handle, events, response,
                   clientGone, cancelled, index, buildVars>>

\* chain.invoke returns the whole output, or raises (HTTP 500)
InvokeDone(t) ==
    /\ pc[t] = "invoking"
    /\ IF script[t].fails
       THEN /\ pc' = [pc EXCEPT ![t] = "raised"]
            /\ response' = [response EXCEPT ![t] = [status |-> 500]]
       ELSE /\ pc' = [pc EXCEPT ![t] = "returned"]
            /\ response' = [response EXCEPT ![t] =
                  [status |-> 200,
                   response |-> script[t].tokens,
                   sources |-> [i \in 1..Len(docs[t]) |-> Source(docs[t][i])]]]
    /\ running' = NoTask
    /\ UNCHANGED <<request, script, docs, context, conversation_history,
                   chain_input, requested, handle, events, clientGone,
                   cancelled, index, seen, buildVars>>

\* the for loop asks chain.stream for its next chunk, a synchronous call;
\* the first time round it calls chain.stream(...) itself
PullToken(t) ==
    /\ pc[t] \in {"responding", "yielded"}
    /\ running = NoTask
    /\ pc' = [pc EXCEPT ![t] = "pulling"]
    /\ running' = t
    /\ requested' = [requested EXCEPT ![t] = @ + 1]
    /\ handle' = [handle EXCEPT ![t] = "open"]
    /\ chain_input' = [chain_input EXCEPT ![t] =
                          IF pc[t] = "responding" THEN <<ChainInput(t)>> ELSE @]
    /\ UNCHANGED <<request, script, docs, context, conversation_history,
                   events, response, clientGone, cancelled, index, seen,
                   buildVars>>

\* the chunk arrives: yield the content event
TokenReady(t) ==
    /\ pc[t] = "pulling"
    /\ requested[t] <= Len(script[t].tokens)
    /\ events' = [events EXCEPT ![t] =
                     Append(@, ContentEvent(script[t].tokens[requested[t]]))]
    /\ pc' = [pc EXCEPT ![t] = "emitted"]
    /\ UNCHANGED <<request, script, docs, context, conversation_history,
                   chain_input, requested, handle, response, clientGone,
                   cancelled, running, index, seen, buildVars>>

\* await asyncio.sleep(0): the task gives the thread back to the loop
Sleep0(t) ==
    /\ pc[t] = "emitted"
    /\ pc' = [pc EXCEPT ![t] = "yielded"]
    /\ running' = NoTask
    /\ UNCHANGED <<request, script, docs, context, conversation_history,
                   chain_input, requested, handle, events, response,
                   clientGone, cancelled, index, seen, buildVars>>

\* chain.stream is exhausted: the loop ends and [DONE] is yielded
StreamEnd(t) ==
    /\ pc[t] = "pulling"
    /\ requested[t] > Len(script[t].tokens)
    /\ ~script[t].fails
    /\ events' = [events EXCEPT ![t] = @ \o OnExhausted]
    /\ handle' = [handle EXCEPT ![t] = "closed"]
    /\ pc' = [pc EXCEPT ![t] = "finished"]
    /\ running' = NoTask
    /\ UNCHANGED <<request, script, docs, context, conversation_history,
                   chain_input, requested, response, clientGone, cancelled,
                   index, seen, buildVars>>

\* chain.stream raises instead of giving a chunk
StreamError(t) ==
    /\ pc[t] = "pulling"
    /\ requested[t] > Len(script[t].tokens)
    /\ script[t].fails
    /\ events' = [events EXCEPT ![t] =
                     IF Catches("Exception") THEN @ \o OnException(script[t].error)
                     ELSE @]
    /\ handle' = [handle EXCEPT ![t] = "closed"]
    /\ pc' = [pc EXCEPT ![t] = "failed"]
    /\ running' = NoTask
    /\ UNCHANGED <<request, script, docs, context, conversation_history,
                   chain_input, requested, response, clientGone, cancelled,
                   index, seen, buildVars>>

\* the client goes away while the response is being streamed
Disconnect(t) ==
    /\ Streaming(t)
    /\ ~clientGone[t]
    /\ clientGone' = [clientGone EXCEPT ![t] = TRUE]
    /\ UNCHANGED <<pc, request, script, docs, context, conversation_history,
                   chain_input, requested, handle, events, response,
                   cancelled, running, index, seen, buildVars>>

\* the server sees the disconnect and cancels the stream task, which is
\* suspended (before the first chunk, or in await asyncio.sleep(0)):
\* CancelledError is thrown into generate() at that point
Cancel(t) ==
    /\ clientGone[t]
    /\ pc[t] \in {"responding", "yielded"}
    /\ running = NoTask
    /\ cancelled' = [cancelled EXCEPT ![t] = TRUE]
    /\ pc' = [pc EXCEPT ![t] = "cancelled"]
    /\ events' = [events EXCEPT ![t] =
                     IF pc[t] = "yielded" /\ Catches("CancelledError")
                     THEN @ \o OnException("cancelled") ELSE @]
    /\ handle' = [handle EXCEPT ![t] = IF @ = "open" THEN "closed" ELSE @]
    /\ UNCHANGED <<request, script, docs, context, conversation_history,
                   chain_input, requested, response, clientGone, running,
                   index, seen, buildVars>>

ChatStep(t) ==
    \/ StartRetrieve(t)
    \/ RetrieveError(t)
    \/ RetrieveDone(t)
    \/ InvokeDone(t)
    \/ PullToken(t)
    \/ TokenReady(t)
    \/ Sleep0(t)
    \/ StreamEnd(t)
    \/ StreamError(t)
    \/ Disconnect(t)
    \/ Cancel(t)

NextChat == \E t \in Tasks : ChatStep(t)

(***************************************************************************)
(* vector_builder.py: the cells of the CSV.  A cell is missing (NaN) or    *)
(* holds text.                                                             *)
(***************************************************************************)
NaN == [na |-> TRUE, val |-> <<>>]
Cell(text) == [na |-> FALSE, val |-> text]

IsSpace(c) == c \in {" ", "\t", "\n"}

\* str.strip()
RECURSIVE LStrip(_)
LStrip(s) == IF s # <<>> /\ IsSpace(Head(s)) THEN LStrip(Tail(s)) ELSE s

RECURSIVE RStrip(_)
RStrip(s) ==
    IF s # <<>> /\ IsSpace(s[Len(s)]) THEN RStrip(SubSeq(s, 1, Len(s) - 1)) ELSE s

Strip(s) == RStrip(LStrip(s))

\* variant: the skip test without strip()
NoContentUnstripped(cell) == cell.na \/ cell.val = <<>>

\* pd.isna(row[content_column]) or not str(row[content_column]).strip()
NoContent(cell) == cell.na \/ Strip(cell.val) = <<>>

\* metadata = {'row_id': i} plus the metadata columns that hold a value
Metadata(i, row, columns) ==
    IF "source" \in {columns[k] : k \in 1..Len(columns)} /\ ~row.source.na
    THEN [row_id |-> i, source |-> row.source.val]
    ELSE [row_id |-> i]

\* the row loop: i is the row's index in the frame, counted from 0
RECURSIVE RowLoop(_, _, _, _)
RowLoop(df, columns, i, acc) ==
    IF i >= Len(df) THEN acc
    ELSE LET row == df[i + 1]
         IN  IF NoContent(row.content)
             THEN RowLoop(df, columns, i + 1,
                          [acc EXCEPT !.skipped = @ + 1])
             ELSE RowLoop(df, columns, i + 1,
                          [acc EXCEPT !.documents =
                              Append(@, [page_content |-> row.content.val,
                                         metadata |-> Metadata(i, row, columns)])])

(***************************************************************************)
(* RecursiveCharacterTextSplitter(chunk_size, chunk_overlap,               *)
(* length_function=len), with its defaults: the separator is kept at the   *)
(* start of the piece that follows it, and chunks are stripped.  The text  *)
(* of the model holds no newline, so of the default separators only " "    *)
(* and "" are ever chosen.                                                 *)
(***************************************************************************)
Separators == <<" ", "">>

Occurs(sep, text) == \E i \in 1..Len(text) : text[i] = sep

\* the pieces of text, each separator opening a new piece; empty pieces dropped
RECURSIVE SplitLoop(_, _, _, _, _)
SplitLoop(text, sep, i, cur, out) ==
    LET flushed == IF cur = <<>> THEN out ELSE Append(out, cur)
    IN  IF i > Len(text) THEN flushed
        ELSE IF text[i] = sep THEN SplitLoop(text, sep, i + 1, <<sep>>, flushed)
        ELSE SplitLoop(text, sep, i + 1, Append(cur, text[i]), out)

SplitWithSeparator(text, sep) ==
    IF sep = "" THEN [i \in 1..Len(text) |-> <<text[i]>>]
    ELSE SplitLoop(text, sep, 1, <<>>, <<>>)

\* _join_docs: the joined and stripped text, dropped when empty
JoinDocs(current_doc, out) ==
    LET text == Strip(Flatten(current_doc))
    IN  IF text = <<>> THEN out ELSE Append(out, text)

RECURSIVE TotalLen(_)
TotalLen(ps) == IF ps = <<>> THEN 0 ELSE Len(Head(ps)) + TotalLen(Tail(ps))

\* the while loop of _merge_splits that drops pieces from the front
RECURSIVE PopFront(_, _, _, _)
PopFront(current_doc, len, size, overlap) ==
    LET total == TotalLen(current_doc)
    IN  IF total > overlap \/ (total + len > size /\ total > 0)
        THEN PopFront(Tail(current_doc), len, size, overlap)
        ELSE current_doc

RECURSIVE MergeLoop(_, _, _, _, _, _)
MergeLoop(splits, i, current_doc, out, size, overlap) ==
    IF i > Len(splits) THEN JoinDocs(current_doc, out)
    ELSE LET d == splits[i]
         IN  IF TotalLen(current_doc) + Len(d) > size /\ current_doc # <<>>
             THEN MergeLoop(splits, i + 1,
                            Append(PopFront(current_doc, Len(d), size, overlap), d),
                            JoinDocs(current_doc, out), size, overlap)
             ELSE MergeLoop(splits, i + 1, Append(current_doc, d), out,
                            size, overlap)

MergeSplits(splits, size, overlap) == MergeLoop(splits, 1, <<>>, <<>>, size, overlap)

\* the first separator that is "" or occurs in the text, else the last one
RECURSIVE PickSeparator(_, _, _)
PickSeparator(text, seps, i) ==
    IF i > Len(seps) THEN [sep |-> seps[Len(seps)], rest |-> <<>>]
    ELSE IF seps[i] = "" THEN [sep |-> "", rest |-> <<>>]
    ELSE IF Occurs(seps[i], text) THEN [sep |-> seps[i], rest |-> Drop(seps, i)]
    ELSE PickSeparator(text, seps, i + 1)

RECURSIVE SplitText(_, _, _, _)
RECURSIVE ChunkLoop(_, _, _, _, _, _, _)
ChunkLoop(splits, i, good, final, rest, size, overlap) ==
    IF i > Len(splits)
    THEN IF good = <<>> THEN final ELSE final \o MergeSplits(good, size, overlap)
    ELSE LET piece == splits[i]
         IN  IF Len(piece) < size
             THEN ChunkLoop(splits, i + 1, Append(good, piece), final, rest,
                            size, overlap)
             ELSE LET merged == IF good = <<>> THEN final
                                ELSE final \o MergeSplits(good, size, overlap)
                      deeper == IF rest = <<>> THEN <<piece>>
                                ELSE SplitText(piece, rest, size, overlap)
                  IN  ChunkLoop(splits, i + 1, <<>>, merged \o deeper, rest,
                                size, overlap)

SplitText(text, seps, size, overlap) ==
    LET pick == PickSeparator(text, seps, 1)
    IN  ChunkLoop(SplitWithSeparator(text, pick.sep), 1, <<>>, <<>>, pick.rest,
                  size, overlap)

\* text_splitter.split_documents: every chunk carries a copy of the metadata
SplitDocuments(documents_, size, overlap) ==
    Flatten([d \in 1..Len(documents_) |->
        LET chunks == SplitText(documents_[d].page_content, Separators, size, overlap)
        IN  [c \in 1..Len(chunks) |->
                [page_content |-> chunks[c],
                 metadata |-> documents_[d].metadata]]])

\* variant: ids numbered on from the entries the collection already holds
IdsAfterExisting(n) ==
    [i \in 1..n |-> FragmentId(i - 1 + Cardinality(DOMAIN index))]

\* ids = [f"doc_{i}" for i in range(len(split_docs))]
Ids(n) == [i \in 1..n |-> FragmentId(i - 1)]

\* collection.upsert of the fragments lo..hi: an entry is added or replaced
Upsert(ix, frags, fids, lo, hi) ==
    LET new == {fids[j] : j \in lo..hi}
    IN  [id \in DOMAIN ix \cup new |->
            IF id \in new
            THEN LET j == CHOOSE j \in lo..hi :
                              /\ fids[j] = id
                              /\ \A k \in lo..hi : fids[k] = id => k <= j
                 IN  [text |-> frags[j].page_content,
                      metadata |-> frags[j].metadata]
            ELSE ix[id]]

(***************************************************************************)
(* build_vector_db: the actions of one run.                                *)
(***************************************************************************)
\* the row loop over the frame
ProcessRows ==
    /\ bpc = "rows"
    /\ LET out == RowLoop(rows, metadata_columns, 0,
                          [documents |-> <<>>, skipped |-> 0])
       IN  /\ documents' = out.documents
           /\ skipped' = out.skipped
    /\ cursor' = Len(rows)
    /\ bpc' = "split"
    /\ UNCHANGED <<rows, metadata_columns, chunk, split_docs, ids, stored,
                   failed, runs, indexAtStart, indexAfterFirst, index, seen,
                   chatVars>>

\* split_documents and the ids of the chunks
SplitStep ==
    /\ bpc = "split"
    /\ split_docs' = SplitDocuments(documents, chunk[1], chunk[2])
    /\ ids' = Ids(Len(split_docs'))
    /\ stored' = 0
    /\ bpc' = "store"
    /\ UNCHANGED <<rows, metadata_columns, chunk, cursor, documents, skipped,
                   failed, runs, indexAtStart, indexAfterFirst, index, seen,
                   chatVars>>

BatchEnd == Min(stored + BatchSize, Len(split_docs))

\* Chroma.from_documents, one batch: the texts of the batch are embedded and
\* then upserted under their ids
StoreBatch ==
    /\ bpc = "store"
    /\ stored < Len(split_docs)
    /\ index' = Upsert(index, split_docs, ids, stored + 1, BatchEnd)
    /\ stored' = BatchEnd
    /\ UNCHANGED <<bpc, rows, metadata_columns, chunk, cursor, documents,
                   skipped, split_docs, ids, failed, runs, indexAtStart,
                   indexAfterFirst, seen, chatVars>>

\* the embedder raises on a text of the batch: nothing catches it, and
\* build_vector_db ends with the exception
EmbedError ==
    /\ bpc = "store"
    /\ stored < Len(split_docs)
    /\ \E j \in (stored + 1)..BatchEnd : failed' = j
    /\ bpc' = "aborted"
    /\ UNCHANGED <<rows, metadata_columns, chunk, cursor, documents, skipped,
                   split_docs, ids, stored, runs, indexAtStart,
                   indexAfterFirst, index, seen, chatVars>>

\* every batch is stored: the summary, the verification query, the return
Finish ==
    /\ bpc = "store"
    /\ stored = Len(split_docs)
    /\ bpc' = "done"
    /\ runs' = runs + 1
    /\ indexAfterFirst' = IF runs = 0 THEN index ELSE indexAfterFirst
    /\ UNCHANGED <<rows, metadata_columns, chunk, cursor, documents, skipped,
                   split_docs, ids, stored, failed, indexAtStart, index, seen,
                   chatVars>>

\* the program is run a second time on the same CSV, with the same arguments
Rerun ==
    /\ bpc = "done"
    /\ runs = 1
    /\ bpc' = "rows"
    /\ cursor' = 0
    /\ documents' = <<>>
    /\ skipped' = 0
    /\ split_docs' = <<>>
    /\ ids' = <<>>
    /\ stored' = 0
    /\ indexAtStart' = index
    /\ UNCHANGED <<rows, metadata_columns, chunk, failed, runs,
                   indexAfterFirst, index, seen, chatVars>>

NextBuildRun ==
    \/ ProcessRows
    \/ SplitStep
    \/ StoreBatch
    \/ EmbedError
    \/ Finish
    \/ Rerun

(***************************************************************************)
(* The requests, collaborators and collections the model starts from.      *)
(***************************************************************************)
Turns == {[role |-> "user", content |-> "u"],
          [role |-> "assistant", content |-> "a"],
          [role |-> "system", content |-> "s"]}

Histories == SeqsUpTo(Turns, MaxHist)

Request(history, stream) ==
    [message |-> <<"q">>, history |-> history, stream |-> stream]

Script(tokens, fails) == [tokens |-> tokens, fails |-> fails, error |-> "boom"]

Scripts == {Script(s, f) : s \in SeqsUpTo({"x", "y"}, MaxTokens), f \in BOOLEAN}

FragTexts == {<<"a">>, <<"b", "c">>}

Indexes ==
    UNION {[{FragmentId(i) : i \in 0..(k - 1)} ->
               [text : FragTexts, metadata : {[row_id |-> 0]}]] : k \in 0..MaxIndex}

OneDoc == [id \in {FragmentId(0)} |-> [text |-> <<"a">>, metadata |-> [row_id |-> 0]]]

\* one request, the history varies
HistoryScenarios ==
    {[index |-> OneDoc,
      request |-> [t \in Tasks |-> Request(IF t = "A" THEN h ELSE <<>>, FALSE)],
      script |-> [t \in Tasks |-> Script(<<"x">>, FALSE)],
      active |-> {"A"}] : h \in Histories}

\* one request, the collection varies
ContextScenarios ==
    {[index |-> ix,
      request |-> [t \in Tasks |-> Request(<<>>, s)],
      script |-> [t \in Tasks |-> Script(<<"x">>, FALSE)],
      active |-> {"A"}] : ix \in Indexes, s \in BOOLEAN}

\* one streaming request, the generation collaborator varies
StreamScenarios ==
    {[index |-> OneDoc,
      request |-> [t \in Tasks |-> Request(<<>>, s)],
      script |-> [t \in Tasks |-> sc],
      active |-> {"A"}] : sc \in Scripts, s \in BOOLEAN}

\* several requests in flight on the one event loop
LoopScenarios ==
    {[index |-> OneDoc,
      request |-> [t \in Tasks |-> Request(<<>>, s[t])],
      script |-> [t \in Tasks |-> sc[t]],
      active |-> Tasks] :
        s \in [Tasks -> BOOLEAN],
        sc \in [Tasks -> {Script(<<"x">>, FALSE), Script(<<>>, TRUE)}]}

Scenarios ==
    HistoryScenarios \cup ContextScenarios \cup StreamScenarios \cup LoopScenarios

ChatStart(sc) ==
    /\ index = sc.index
    /\ request = sc.request
    /\ script = sc.script
    /\ pc = [t \in Tasks |-> IF t \in sc.active THEN "start" ELSE "idle"]
    /\ docs = [t \in Tasks |-> <<>>]
    /\ context = [t \in Tasks |-> <<>>]
    /\ conversation_history = [t \in Tasks |-> <<>>]
    /\ chain_input = [t \in Tasks |-> <<>>]
    /\ requested = [t \in Tasks |-> 0]
    /\ handle = [t \in Tasks |-> "none"]
    /\ events = [t \in Tasks |-> <<>>]
    /\ response = [t \in Tasks |-> [status |-> 0]]
    /\ clientGone = [t \in Tasks |-> FALSE]
    /\ cancelled = [t \in Tasks |-> FALSE]
    /\ running = NoTask
    /\ seen = {}

BuildIdle ==
    /\ bpc = "idle"
    /\ rows = <<>>
    /\ metadata_columns = <<>>
    /\ chunk = <<1, 0>>
    /\ cursor = 0
    /\ documents = <<>>
    /\ skipped = 0
    /\ split_docs = <<>>
    /\ ids = <<>>
    /\ stored = 0
    /\ failed = 0
    /\ runs = 0
    /\ indexAtStart = index
    /\ indexAfterFirst = <<>>

Init == (\E sc \in Scenarios : ChatStart(sc)) /\ BuildIdle

Next == NextChat

Spec == Init /\ [][Next]_vars

(***************************************************************************)
(* The CSV files and arguments build_vector_db is run on.                  *)
(***************************************************************************)
Row(content, source) == [content |-> content, source |-> source]

Texts == SeqsUpTo({"a", "b", " "}, MaxLen)

RowKinds == {Row(c, NaN) : c \in {NaN, Cell(<<>>), Cell(<<" ">>), Cell(<<"a">>),
                                  Cell(<<" ", "b">>), Cell(<<"a", "b">>)}}

ChunkParams == {<<1, 0>>, <<2, 1>>}

NoIndex == [id \in {} |-> [text |-> <<>>, metadata |-> [row_id |-> 0]]]

Stale == [id \in {FragmentId(0), FragmentId(9)} |->
             [text |-> <<"z">>, metadata |-> [row_id |-> 0]]]

NoRequests(ix) ==
    [index |-> ix,
     request |-> [t \in Tasks |-> Request(<<>>, FALSE)],
     script |-> [t \in Tasks |-> Script(<<"x">>, FALSE)],
     active |-> {}]

\* the number of rows varies
RowScenarios ==
    {[rows |-> rs, columns |-> <<>>, chunk |-> ch, chat |-> NoRequests(NoIndex)] :
        rs \in SeqsUpTo(RowKinds, MaxRows), ch \in ChunkParams}

\* the text of a row varies
TextScenarios ==
    {[rows |-> <<Row(Cell(<<"b">>), NaN), Row(Cell(tx), NaN)>>, columns |-> <<>>,
      chunk |-> ch, chat |-> NoRequests(NoIndex)] :
        tx \in Texts, ch \in ChunkParams}

\* the metadata columns and the collection found on disk vary
MetaScenarios ==
    {[rows |-> rs, columns |-> cols, chunk |-> <<1, 0>>, chat |-> NoRequests(ix)] :
        rs \in SeqsUpTo({Row(Cell(<<"a", "b">>), src) :
                             src \in {NaN, Cell(<<"s">>)}}, 2),
        cols \in {<<>>, <<"source">>},
        ix \in {NoIndex, Stale}}

\* a chat request is served while the collection is being built
QueryScenarios ==
    {[rows |-> <<Row(Cell(<<"a", "b">>), NaN), Row(Cell(<<"c">>), NaN)>>,
      columns |-> <<>>, chunk |-> <<1, 0>>,
      chat |-> [index |-> NoIndex,
                request |-> [t \in Tasks |-> Request(<<>>, s)],
                script |-> [t \in Tasks |-> sc],
                active |-> {"A"}]] :
        s \in BOOLEAN, sc \in {Script(<<"x">>, FALSE), Script(<<>>, TRUE)}}

BuildScenarios ==
    RowScenarios \cup TextScenarios \cup MetaScenarios \cup QueryScenarios

BuildStart(b) ==
    /\ bpc = "rows"
    /\ rows = b.rows
    /\ metadata_columns = b.columns
    /\ chunk = b.chunk
    /\ cursor = 0
    /\ documents = <<>>
    /\ skipped = 0
    /\ split_docs = <<>>
    /\ ids = <<>>
    /\ stored = 0
    /\ failed = 0
    /\ runs = 0
    /\ indexAtStart = index
    /\ indexAfterFirst = <<>>

InitBuild == \E b \in BuildScenarios : ChatStart(b.chat) /\ BuildStart(b)

NextBuild == NextBuildRun \/ NextChat

SpecBuild == InitBuild /\ [][NextBuild]_vars

(***************************************************************************)
(* Properties of chat() and generate().                                    *)
(***************************************************************************)
\* steps 2 and 3 of chat() have run for the request of task t
Assembled(t) ==
    pc[t] \in {"responding", "invoking", "returned", "pulling", "emitted",
               "yielded", "finished", "failed", "cancelled"}

\* the content events of the first n tokens of the producer, in its order
ContentEvents(t, n) ==
    [i \in 1..n |-> [token |-> script[t].tokens[i], type |-> "content"]]

\* C1: when chain.stream raises after n tokens, the client has received
\* exactly the n content events, then one error event with the error's
\* description and nothing else (no [DONE], no later content event), and no
\* request is made of the producer after the one that raised.
C1_ErrorAfterTokens ==
    \A t \in Tasks :
        pc[t] = "failed" =>
            LET n == Len(script[t].tokens)
            IN  /\ events[t] = ContentEvents(t, n) \o <<[error |-> script[t].error]>>
                /\ requested[t] = n + 1
                /\ handle[t] = "closed"

C1_Witness ==
    \E t \in Tasks :
        /\ pc[t] = "failed"
        /\ Len(script[t].tokens) = 3
        /\ Len(events[t]) = 4

\* C2: when chain.stream ends without failure after n tokens, the events are
\* the n content events, one per token and in the producer's order, then one
\* [DONE] event; while the stream runs the events are the content events of
\* the tokens received so far, so no error event and nothing after [DONE].
C2_DoneAfterTokens ==
    \A t \in Tasks :
        /\ pc[t] = "finished" =>
              events[t] = ContentEvents(t, Len(script[t].tokens))
                          \o <<[marker |-> "[DONE]"]>>
        /\ pc[t] = "pulling" => events[t] = ContentEvents(t, requested[t] - 1)
        /\ pc[t] \in {"emitted", "yielded"} =>
              events[t] = ContentEvents(t, requested[t])
        /\ pc[t] \in {"idle", "start", "retrieving", "responding", "invoking",
                      "returned", "raised"} => events[t] = <<>>

C2_Witness ==
    \E t \in Tasks :
        /\ pc[t] = "finished"
        /\ script[t].tokens = <<"x", "y", "x">>
        /\ Len(events[t]) = 4

\* C3: the history block holds the last min(n, 6) turns of the n supplied,
\* in their order (one line per turn, after a header line), and no older
\* turn; for an empty history the block is the empty string.
C3_HistoryWindow ==
    \A t \in Tasks :
        Assembled(t) =>
            LET h == request[t].history
                n == Len(h)
                m == IF n < HistoryWindow THEN n ELSE HistoryWindow
                b == conversation_history[t]
            IN  IF n = 0 THEN b = <<>>
                ELSE /\ Len(b) = 4 * m + 2
                     /\ b[1] = "Previous conversation:\n"
                     /\ \A j \in 1..m :
                           LET turn == h[n - m + j]
                           IN  /\ turn.role = "user" => b[4 * j - 2] = "User"
                               /\ turn.role = "assistant" => b[4 * j - 2] = "Assistant"
                               /\ b[4 * j - 1] = ": "
                               /\ b[4 * j] = turn.content
                               /\ b[4 * j + 1] = "\n"
                     /\ b[4 * m + 2] = "\n"

C3_Witness ==
    \E t \in Tasks :
        /\ Assembled(t)
        /\ Len(request[t].history) = 7
        /\ request[t].history[1].content # request[t].history[7].content
        /\ Len(conversation_history[t]) = 26

\* the place in the context where the i-th fragment's marker starts
RECURSIVE MarkerOffset(_, _)
MarkerOffset(ds, i) ==
    IF i = 1 THEN 0
    ELSE MarkerOffset(ds, i - 1) + Len(ds[i - 1].page_content) + 4

\* C4: the context holds every retrieved fragment once, in the retriever's
\* order, the i-th after the marker "Document i"; with no fragment the
\* context is the empty string, and generation is called, once, with the
\* context as built.
C4_ContextFormat ==
    \A t \in Tasks :
        Assembled(t) =>
            LET ds == docs[t]
                c == context[t]
            IN  /\ Len(c) = MarkerOffset(ds, Len(ds) + 1)
                /\ \A i \in 1..Len(ds) :
                      LET o == MarkerOffset(ds, i)
                          text == ds[i].page_content
                      IN  /\ c[o + 1] = "\n--- Document "
                          /\ c[o + 2] = <<"1", "2", "3", "4", "5">>[i]
                          /\ c[o + 3] = " ---\n"
                          /\ SubSeq(c, o + 4, o + 3 + Len(text)) = text
                          /\ c[o + 4 + Len(text)] = "\n"
                /\ ds = <<>> => c = <<>>
                /\ \A k \in 1..Len(chain_input[t]) : chain_input[t][k].context = c
                /\ pc[t] \in {"invoking", "returned", "pulling", "emitted",
                              "yielded", "finished", "failed"}
                      => Len(chain_input[t]) = 1

C4_Witness ==
    \E t \in Tasks :
        /\ pc[t] \in {"returned", "finished"}
        /\ Len(docs[t]) = 2
        /\ docs[t][1].page_content # docs[t][2].page_content
        /\ docs[t][1].id = <<"doc_", "1">>
        /\ Len(chain_input[t]) = 1

\* a request that could take its next step if the loop gave it the thread
Runnable(u) == pc[u] \in {"start", "responding", "yielded"}

\* C8: while a streaming request waits for retrieval or for the next token,
\* the other requests in flight can still take their next step.
C8_NeverBlocks ==
    \A t, u \in Tasks :
        (/\ t # u
         /\ request[t].stream
         /\ pc[t] \in {"retrieving", "pulling"}
         /\ Runnable(u))
            => ENABLED (StartRetrieve(u) \/ PullToken(u))

Blank(cell) == cell.na \/ \A i \in 1..Len(cell.val) : cell.val[i] \in {" ", "\t", "\n"}

\* the row loop of the current run is over
RowsDone == bpc \in {"split", "store", "done", "aborted"}

\* C5: after the row loop every row is either skipped (its content missing,
\* empty or white space only) or has become exactly one Document, the
\* Documents standing in row order: accepted + skipped = rows.  The loop
\* has no exit but its end.
C5_RowsSkippedOrAccepted ==
    RowsDone =>
        LET kept == {i \in 1..Len(rows) : ~Blank(rows[i].content)}
        IN  /\ Len(documents) + skipped = Len(rows)
            /\ skipped = Len(rows) - Cardinality(kept)
            /\ cursor = Len(rows)
            /\ \A k \in 1..Len(documents) :
                  /\ documents[k].metadata.row_id + 1 \in kept
                  /\ documents[k].page_content =
                         rows[documents[k].metadata.row_id + 1].content.val
            /\ \A k, l \in 1..Len(documents) :
                  k < l => documents[k].metadata.row_id < documents[l].metadata.row_id

C5_Witness ==
    /\ RowsDone
    /\ Len(rows) = 3
    /\ rows[1].content.na
    /\ ~rows[2].content.na /\ rows[2].content.val = <<" ">>
    /\ ~Blank(rows[3].content)
    /\ skipped = 2
    /\ Len(documents) = 1

\* C6: a second run on the same input leaves the collection as the first run
\* left it; within a run the fragment ids are pairwise distinct.
C6_SecondRunSameIndex ==
    /\ bpc \in {"store", "done", "aborted"} =>
          /\ Len(ids) = Len(split_docs)
          /\ \A i, j \in 1..Len(ids) : ids[i] = ids[j] => i = j
    /\ (runs = 2 /\ bpc = "done") =>
          /\ DOMAIN index = DOMAIN indexAfterFirst
          /\ \A id \in DOMAIN index : index[id] = indexAfterFirst[id]
          /\ \A i \in 1..Len(ids) :
                /\ ids[i] \in DOMAIN index
                /\ index[ids[i]].text = split_docs[i].page_content
                /\ index[ids[i]].metadata = split_docs[i].metadata

C6_Witness ==
    /\ runs = 2
    /\ bpc = "done"
    /\ Len(split_docs) = 4
    /\ split_docs[1].page_content # split_docs[2].page_content
    /\ Cardinality(DOMAIN index) = 5
    /\ index[FragmentId(0)].text = <<"a">>
    /\ index[FragmentId(9)].text = <<"z">>

\* the fragments of the rows other than the one the embedder failed on
OtherFragments ==
    {j \in 1..Len(split_docs) :
        split_docs[j].metadata.row_id # split_docs[failed].metadata.row_id}

\* C7: an embedder error on one row's fragment does not end the build: the
\* run goes on, counts that row as skipped, and the fragments of the other
\* accepted rows are upserted.
C7_EmbedErrorIsolated ==
    failed # 0 =>
        /\ bpc # "aborted"
        /\ bpc = "done" =>
              /\ Len(documents) + skipped = Len(rows) + 1
              /\ \A j \in OtherFragments : ids[j] \in DOMAIN index

\* the collection once every batch of the current run is stored
FinalIndex ==
    LET out == RowLoop(rows, metadata_columns, 0, [documents |-> <<>>, skipped |-> 0])
        frags == SplitDocuments(out.documents, chunk[1], chunk[2])
    IN  IF frags = <<>> THEN indexAtStart
        ELSE Upsert(indexAtStart, frags, Ids(Len(frags)), 1, Len(frags))

Results(ix) == {Retrieved(ix, r) : r \in Rankings(ix)}

\* C10: a retrieval made while a build is running returns what the
\* collection held before the build began or what it holds once the build
\* is complete, never something in between.
C10_NoPartialIndex ==
    \A ds \in seen : ds \in Results(indexAtStart) \cup Results(FinalIndex)

====
